---- MODULE Spec2Model ----
(***************************************************************************)
(* Army simulation (src/main.py): units, armies, training, transformation  *)
(* and battles between armies.                                             *)
(*                                                                         *)
(* A Python string is modelled as a sequence of one-character strings, so  *)
(* that str.lower() is a computation and not the identity.  Python list    *)
(* indexes are 0-based; the sequences here are 1-based, so the unit at     *)
(* Python index i is units[i + 1].                                         *)
(***************************************************************************)
EXTENDS Integers, Sequences, FiniteSets, TLC

VARIABLES
    armies,   \* slot -> Army object (gold, units, battle_record, civilization)
    last,     \* the last call made and what it returned
    removed,  \* the Unit objects the last call took out of the rosters
    trained   \* slot -> successful train_unit calls at FocusIndex, per unit type

vars == <<armies, last, removed, trained>>

----------------------------------------------------------------------------
(* Strings *)

UpperCase == <<"A","B","C","D","E","F","G","H","I","J","K","L","M",
               "N","O","P","Q","R","S","T","U","V","W","X","Y","Z">>
LowerCase == <<"a","b","c","d","e","f","g","h","i","j","k","l","m",
               "n","o","p","q","r","s","t","u","v","w","x","y","z">>

\* str.lower() on one character: cased ASCII letters are mapped, the rest kept
lower_char(c) ==
    IF \E k \in DOMAIN UpperCase : UpperCase[k] = c
    THEN LowerCase[CHOOSE k \in DOMAIN UpperCase : UpperCase[k] = c]
    ELSE c

\* a lower() that leaves the string as it is
lower_unchanged(s) == s

\* str.lower()
lower(s) == [k \in DOMAIN s |-> lower_char(s[k])]

str_chinese   == <<"c","h","i","n","e","s","e">>
str_english   == <<"e","n","g","l","i","s","h">>
str_byzantine == <<"b","y","z","a","n","t","i","n","e">>
str_archer    == <<"a","r","c","h","e","r">>
str_knight    == <<"k","n","i","g","h","t">>

----------------------------------------------------------------------------
(* Program constants *)

InitialGold == 1000
VictoryGold == 100
PikemanStrength == 5
ArcherStrength == 10
KnightStrength == 20
PikemanToArcherCost == 30
ArcherToKnightCost == 40
WinnerRemoves == 2
DrawRemoves == 1

----------------------------------------------------------------------------
(* Units *)

Unit(unit_type, strength, training_cost, training_gain) ==
    [unit_type |-> unit_type, strength |-> strength, years_of_life |-> 0,
     training_cost |-> training_cost, training_gain |-> training_gain]

Pikeman == Unit("pikeman", PikemanStrength, 10, 3)
Archer  == Unit("archer", ArcherStrength, 20, 7)
Knight  == Unit("knight", KnightStrength, 30, 10)

\* a training that takes the gain off the strength
train_weakening(unit) == [unit EXCEPT !.strength = @ - unit.training_gain]

\* Unit.train
train(unit) == [unit EXCEPT !.strength = @ + unit.training_gain]

\* isinstance(unit, cls): unit_type is fixed by the constructor of each class
isinstance(unit, cls) == unit.unit_type = cls.unit_type

\* [cls() for _ in range(n)]
Repeat(unit, n) == [k \in 1..n |-> unit]

----------------------------------------------------------------------------
(* Army *)

\* a roster filled knights first
RosterKnightsFirst(pikemen, archers, knights) ==
    Repeat(Knight, knights) \o Repeat(Archer, archers) \o Repeat(Pikeman, pikemen)

\* the three units.extend calls of a preset: Pikemen, then Archers, then Knights
Roster(pikemen, archers, knights) ==
    Repeat(Pikeman, pikemen) \o Repeat(Archer, archers) \o Repeat(Knight, knights)

\* Army.__init__: the object built, and whether ValueError was raised (the
\* fields are assigned before the name is looked at; on a raise the caller
\* gets no object)
ArmyInit_result(civilization) ==
    LET self == [civilization |-> civilization,
                 gold |-> InitialGold,
                 units |-> <<>>,
                 battle_record |-> <<>>]
        civilization_lower == lower(civilization)
    IN  IF civilization_lower = str_chinese
        THEN [raised |-> FALSE,
              army |-> [self EXCEPT !.units = Roster(2, 25, 2)]]
        ELSE IF civilization_lower = str_english
        THEN [raised |-> FALSE,
              army |-> [self EXCEPT !.units = Roster(10, 10, 10)]]
        ELSE IF civilization_lower = str_byzantine
        THEN [raised |-> FALSE,
              army |-> [self EXCEPT !.units = Roster(5, 8, 15)]]
        ELSE [raised |-> TRUE, army |-> self]

\* the strengths of the first k units, added up
RECURSIVE SumStrength(_, _)
SumStrength(units, k) ==
    IF k = 0 THEN 0
    ELSE units[k].strength + SumStrength(units, k - 1)

\* Army.get_total_strength
get_total_strength(self) == SumStrength(self.units, Len(self.units))

\* train_unit asking for more gold than the cost
train_unit_strict(self, unit_index) ==
    IF unit_index < 0 \/ unit_index >= Len(self.units)
    THEN [army |-> self, ret |-> "False"]
    ELSE LET unit == self.units[unit_index + 1]
         IN  IF self.gold > unit.training_cost
             THEN [army |-> [self EXCEPT
                               !.gold = @ - unit.training_cost,
                               !.units[unit_index + 1] = train(unit)],
                   ret |-> "True"]
             ELSE [army |-> self, ret |-> "False"]

\* train_unit that asks for some gold, not for the cost
train_unit_on_credit(self, unit_index) ==
    IF unit_index < 0 \/ unit_index >= Len(self.units)
    THEN [army |-> self, ret |-> "False"]
    ELSE LET unit == self.units[unit_index + 1]
         IN  IF self.gold > 0
             THEN [army |-> [self EXCEPT
                               !.gold = @ - unit.training_cost,
                               !.units[unit_index + 1] = train(unit)],
                   ret |-> "True"]
             ELSE [army |-> self, ret |-> "False"]

\* Army.train_unit: the army after the call and the value returned
train_unit_result(self, unit_index) ==
    IF unit_index < 0 \/ unit_index >= Len(self.units)
    THEN [army |-> self, ret |-> "False"]
    ELSE LET unit == self.units[unit_index + 1]
         IN  IF self.gold >= unit.training_cost
             THEN [army |-> [self EXCEPT
                               !.gold = @ - unit.training_cost,
                               !.units[unit_index + 1] = train(unit)],
                   ret |-> "True"]
             ELSE [army |-> self, ret |-> "False"]

\* the Archer built without copying the years of life
ArcherFromPikemanNewborn(current_unit) ==
    LET training_bonus == current_unit.strength - PikemanStrength
    IN  [Archer EXCEPT !.strength = ArcherStrength + training_bonus]

\* the Archer built from a Pikeman in transform_unit
ArcherFromPikeman(current_unit) ==
    LET training_bonus == current_unit.strength - PikemanStrength
    IN  [Archer EXCEPT !.years_of_life = current_unit.years_of_life,
                       !.strength = ArcherStrength + training_bonus]

\* the Knight built with the bonus taken over the Pikeman's base strength
KnightFromArcherPikemanBase(current_unit) ==
    LET training_bonus == current_unit.strength - PikemanStrength
    IN  [Knight EXCEPT !.years_of_life = current_unit.years_of_life,
                       !.strength = KnightStrength + training_bonus]

\* the Knight that is still trained as the Archer it was
KnightTrainedAsArcher(current_unit) ==
    LET training_bonus == current_unit.strength - ArcherStrength
    IN  [Knight EXCEPT !.years_of_life = current_unit.years_of_life,
                       !.strength = KnightStrength + training_bonus,
                       !.training_cost = current_unit.training_cost,
                       !.training_gain = current_unit.training_gain]

\* the Knight built from an Archer in transform_unit
KnightFromArcher(current_unit) ==
    LET training_bonus == current_unit.strength - ArcherStrength
    IN  [Knight EXCEPT !.years_of_life = current_unit.years_of_life,
                       !.strength = KnightStrength + training_bonus]

\* transform_unit putting the new unit in the roster before looking at the gold
transform_unit_replace_first(self, unit_index, new_type) ==
    IF unit_index < 0 \/ unit_index >= Len(self.units)
    THEN [army |-> self, ret |-> "False"]
    ELSE LET current_unit == self.units[unit_index + 1]
             new_type_lower == lower(new_type)
             pikeman_to_archer ==
                 isinstance(current_unit, Pikeman) /\ new_type_lower = str_archer
             archer_to_knight ==
                 isinstance(current_unit, Archer) /\ new_type_lower = str_knight
             cost == IF pikeman_to_archer THEN PikemanToArcherCost
                     ELSE ArcherToKnightCost
             new_unit == IF pikeman_to_archer THEN ArcherFromPikeman(current_unit)
                         ELSE KnightFromArcher(current_unit)
             replaced == [self EXCEPT !.units[unit_index + 1] = new_unit]
         IN  IF ~(pikeman_to_archer \/ archer_to_knight)
             THEN [army |-> self, ret |-> "False"]
             ELSE IF self.gold >= cost
             THEN [army |-> [replaced EXCEPT !.gold = @ - cost], ret |-> "True"]
             ELSE [army |-> replaced, ret |-> "False"]

\* Army.transform_unit: the army after the call and the value returned
transform_unit_result(self, unit_index, new_type) ==
    IF unit_index < 0 \/ unit_index >= Len(self.units)
    THEN [army |-> self, ret |-> "False"]
    ELSE LET current_unit == self.units[unit_index + 1]
             new_type_lower == lower(new_type)
             pikeman_to_archer ==
                 isinstance(current_unit, Pikeman) /\ new_type_lower = str_archer
             archer_to_knight ==
                 isinstance(current_unit, Archer) /\ new_type_lower = str_knight
             cost == IF pikeman_to_archer THEN PikemanToArcherCost
                     ELSE ArcherToKnightCost
             new_unit == IF pikeman_to_archer THEN ArcherFromPikeman(current_unit)
                         ELSE KnightFromArcher(current_unit)
         IN  IF ~(pikeman_to_archer \/ archer_to_knight)
             THEN [army |-> self, ret |-> "False"]
             ELSE IF self.gold >= cost
             THEN [army |-> [self EXCEPT !.gold = @ - cost,
                                         !.units[unit_index + 1] = new_unit],
                   ret |-> "True"]
             ELSE [army |-> self, ret |-> "False"]

\* the greatest strength among the first k units
RECURSIVE MaxStrength(_, _)
MaxStrength(units, k) ==
    IF k = 1 THEN units[1].strength
    ELSE LET m == MaxStrength(units, k - 1)
         IN  IF units[k].strength > m THEN units[k].strength ELSE m

\* max(self.units, key=strength): the position of the first unit of maximum
\* strength (max returns the first maximal element)
StrongestIndex(units) ==
    LET m == MaxStrength(units, Len(units))
    IN  CHOOSE k \in 1..Len(units) :
            /\ units[k].strength = m
            /\ \A j \in 1..(k - 1) : units[j].strength # m

\* list.remove of the object at position k (units compare by identity)
RemoveAt(units, k) == SubSeq(units, 1, k - 1) \o SubSeq(units, k + 1, Len(units))

Min(x, y) == IF x <= y THEN x ELSE y

\* the loop of remove_strongest_units: n times, take out the first unit of
\* maximum strength; gives the units left and the units taken out
RECURSIVE RemoveStrongest(_, _, _)
RemoveStrongest(units, n, taken) ==
    IF n = 0 THEN [units |-> units, removed |-> taken]
    ELSE LET k == StrongestIndex(units)
         IN  RemoveStrongest(RemoveAt(units, k), n - 1, Append(taken, units[k]))

\* remove_strongest_units taking the first units of the roster instead of the
\* strongest
remove_first_units(self, count) ==
    IF self.units = <<>> THEN [army |-> self, removed |-> <<>>]
    ELSE LET units_to_remove == Min(count, Len(self.units))
         IN  [army |-> [self EXCEPT
                           !.units = SubSeq(@, units_to_remove + 1, Len(@))],
              removed |-> SubSeq(self.units, 1, units_to_remove)]

\* remove_strongest_units taking the last unit of maximum strength instead of
\* the first
remove_last_strongest(self, count) ==
    IF self.units = <<>> THEN [army |-> self, removed |-> <<>>]
    ELSE LET Reverse(q) == [k \in 1..Len(q) |-> q[Len(q) + 1 - k]]
             units_to_remove == Min(count, Len(self.units))
             r == RemoveStrongest(Reverse(self.units), units_to_remove, <<>>)
         IN  [army |-> [self EXCEPT !.units = Reverse(r.units)],
              removed |-> r.removed]

\* remove_strongest_units that leaves the roster alone
remove_no_units(self, count) == [army |-> self, removed |-> <<>>]

\* Army.remove_strongest_units: the army after the call, and the Unit objects
\* it took out of the roster (nothing touches them afterwards)
remove_strongest_units(self, count) ==
    IF self.units = <<>> THEN [army |-> self, removed |-> <<>>]
    ELSE LET units_to_remove == Min(count, Len(self.units))
             r == RemoveStrongest(self.units, units_to_remove, <<>>)
         IN  [army |-> [self EXCEPT !.units = r.units], removed |-> r.removed]

\* _age_all_units stopping one unit short of the end of the roster
age_all_but_last(self) ==
    [self EXCEPT !.units =
        [k \in 1..Len(@) |->
            IF k < Len(@) THEN [@[k] EXCEPT !.years_of_life = @ + 1] ELSE @[k]]]

\* Army._age_all_units
age_all_units(self) ==
    [self EXCEPT !.units =
        [k \in 1..Len(@) |-> [@[k] EXCEPT !.years_of_life = @ + 1]]]

\* the other army's record given this army's result
SameResult(result) == result

\* the result written into the other army's record
Inverted(result) ==
    IF result = "victory" THEN "defeat"
    ELSE IF result = "defeat" THEN "victory"
    ELSE "draw"

\* a comparison that gives the attacker the ties
BattleResultTieWins(our_strength, enemy_strength) ==
    IF our_strength >= enemy_strength THEN "victory"
    ELSE "defeat"

\* the outcome of comparing the two strengths
BattleResult(our_strength, enemy_strength) ==
    IF our_strength > enemy_strength THEN "victory"
    ELSE IF enemy_strength > our_strength THEN "defeat"
    ELSE "draw"

\* Army.attack once both rosters are known to be non-empty, on the objects
\* bound to slots s (self) and o (other_army), which may be one and the same
\* object: every statement reads the state the statement before it left.
Battle(A, s, o) ==
    LET our_strength == get_total_strength(A[s])
        enemy_strength == get_total_strength(A[o])
        result == BattleResult(our_strength, enemy_strength)
        \* gold and removals
        B1 == IF result = "victory"
              THEN [A EXCEPT ![s].gold = @ + VictoryGold]
              ELSE IF result = "defeat"
              THEN [A EXCEPT ![o].gold = @ + VictoryGold]
              ELSE [A EXCEPT ![s] = remove_strongest_units(@, DrawRemoves).army]
        first == IF result = "draw"
                 THEN remove_strongest_units(A[s], DrawRemoves).removed
                 ELSE <<>>
        loser == IF result = "defeat" THEN s ELSE o
        second == remove_strongest_units(
                      B1[loser], IF result = "draw" THEN DrawRemoves
                                 ELSE WinnerRemoves)
        B2 == [B1 EXCEPT ![loser] = second.army]
        \* ageing
        C1 == [B2 EXCEPT ![s] = age_all_units(@)]
        C2 == [C1 EXCEPT ![o] = age_all_units(@)]
        \* history
        battle_record == [opponent |-> A[o].civilization,
                          our_strength |-> our_strength,
                          enemy_strength |-> enemy_strength,
                          result |-> result]
        D1 == [C2 EXCEPT ![s].battle_record = Append(@, battle_record)]
        D2 == [D1 EXCEPT ![o].battle_record =
                  Append(@, [opponent |-> A[s].civilization,
                             our_strength |-> enemy_strength,
                             enemy_strength |-> our_strength,
                             result |-> Inverted(battle_record.result)])]
    IN  [armies |-> D2, ret |-> battle_record.result,
         removed |-> first \o second.removed]

\* attack that takes the two units from the winner's roster and spares the
\* loser's
attack_punishing_winner(A, s, o) ==
    IF A[s].units = <<>>
    THEN [armies |-> A, ret |-> "no_units", removed |-> <<>>]
    ELSE IF A[o].units = <<>>
    THEN [armies |-> A, ret |-> "no_target", removed |-> <<>>]
    ELSE LET b == Battle(A, s, o)
             w == IF b.ret = "victory" THEN s ELSE o
             l == IF b.ret = "victory" THEN o ELSE s
             taken == remove_strongest_units(A[w], WinnerRemoves)
         IN  IF b.ret = "draw" THEN b
             ELSE [armies |-> [b.armies EXCEPT
                                  ![l].units = age_all_units(A[l]).units,
                                  ![w].units = age_all_units(taken.army).units],
                   ret |-> b.ret,
                   removed |-> taken.removed]

\* attack that skips the test of the other army's roster
attack_unchecked_target(A, s, o) ==
    IF A[s].units = <<>>
    THEN [armies |-> A, ret |-> "no_units", removed |-> <<>>]
    ELSE Battle(A, s, o)

\* attack that assigns the attacker a history of the new record alone instead
\* of appending to it
attack_rewriting_history(A, s, o) ==
    IF A[s].units = <<>>
    THEN [armies |-> A, ret |-> "no_units", removed |-> <<>>]
    ELSE IF A[o].units = <<>>
    THEN [armies |-> A, ret |-> "no_target", removed |-> <<>>]
    ELSE LET r == Battle(A, s, o)
         IN  [r EXCEPT !.armies[s].battle_record = SubSeq(@, Len(@), Len(@))]

\* attack in which the army held by the variable of the lower number takes
\* the ties
attack_by_slot(A, s, o) ==
    IF A[s].units = <<>>
    THEN [armies |-> A, ret |-> "no_units", removed |-> <<>>]
    ELSE IF A[o].units = <<>>
    THEN [armies |-> A, ret |-> "no_target", removed |-> <<>>]
    ELSE IF get_total_strength(A[s]) = get_total_strength(A[o]) /\ s <= 2
    THEN Battle([A EXCEPT ![s].units[1].strength = @ + 1], s, o)
    ELSE Battle(A, s, o)

\* attack that calls an attack of an army on itself a draw and leaves it
\* alone
attack_sparing_self(A, s, o) ==
    IF A[s].units = <<>>
    THEN [armies |-> A, ret |-> "no_units", removed |-> <<>>]
    ELSE IF A[o].units = <<>>
    THEN [armies |-> A, ret |-> "no_target", removed |-> <<>>]
    ELSE IF s = o
    THEN [armies |-> A, ret |-> "draw", removed |-> <<>>]
    ELSE Battle(A, s, o)

\* Army.attack: all armies after the call, the value returned and the Unit
\* objects taken out of the rosters
attack_result(A, s, o) ==
    IF A[s].units = <<>>
    THEN [armies |-> A, ret |-> "no_units", removed |-> <<>>]
    ELSE IF A[o].units = <<>>
    THEN [armies |-> A, ret |-> "no_target", removed |-> <<>>]
    ELSE Battle(A, s, o)

----------------------------------------------------------------------------
(* Bounds: the callers' inputs *)

\* the variables of the caller that hold an Army
Slots == {1, 2}

\* the roster index the callers train and transform (besides the probes
\* outside the roster)
FocusIndex == 0

\* successful train_unit calls at FocusIndex a caller makes per army
MaxTrain == 3

\* the same, for a caller that also sends its armies into battle
MaxTrainBattle == 1

\* an army is trained or transformed only while its history is this short
MaxEconBattles == 1

\* an army attacks itself only while its history is shorter than this
MaxSelfBattles == 2

\* the greatest count a caller passes to remove_strongest_units
MaxCount == 3

\* names given to Army(...)
CivNames ==
    {str_chinese,
     <<"E","n","g","l","i","s","h">>,
     <<"B","Y","Z","A","N","T","I","N","E">>,
     <<"r","o","m","a","n">>}

\* more names given to Army(...): mixed case, a name with a blank after it,
\* the empty name, a prefix of a name, a name one letter off
MoreCivNames ==
    {<<"c","H","i","N","e","S","e">>,
     <<"E","N","G","L","I","S","h">>,
     <<"b","y","z","a","n","t","i","n","e">>,
     <<"c","h","i","n","e","s","e"," ">>,
     <<>>,
     <<"c","h","i","n","a">>,
     <<"e","n","g","l","i","s","c","h">>}

\* the variables of a caller that holds two pairs of armies
TwinSlots == {1, 2, 3, 4}

\* battles an army of such a pair fights
MaxTwinBattles == 2

\* names given to the armies of the pairs: one civilization spelt in two
\* ways, and a second one
TwinNames ==
    {str_chinese,
     <<"c","H","i","N","e","S","e">>,
     <<"E","n","g","l","i","s","h">>}

\* battles an army fights while its caller spends all its gold
MaxGoldBattles == 1

\* an army is sent against itself between its battles only while its history
\* is shorter than this
MaxPersistBattles == 6

\* names given to transform_unit
TargetNames ==
    {str_archer,
     str_knight,
     <<"A","r","c","h","e","r">>,
     <<"p","i","k","e","m","a","n">>}

\* names given to transform_unit by the callers that also fight
BattleTargets == {str_archer, str_knight}

----------------------------------------------------------------------------
(* State machine *)

NoTraining == [pikeman |-> 0, archer |-> 0, knight |-> 0]

Call(op, self, index, other, arg, ret) ==
    [op |-> op, self |-> self, index |-> index, other |-> other,
     arg |-> arg, ret |-> ret]

Init ==
    /\ armies = [a \in {} |-> 0]
    /\ last = Call("none", 0, 0, 0, <<>>, "None")
    /\ removed = <<>>
    /\ trained = [a \in Slots |-> NoTraining]

\* a = Army(civilization), for a variable a not bound yet
ArmyInit(a, civilization) ==
    /\ a \notin DOMAIN armies
    /\ \E r \in {ArmyInit_result(civilization)} :
        /\ armies' = IF r.raised THEN armies
                      ELSE [x \in DOMAIN armies \cup {a} |->
                               IF x = a THEN r.army ELSE armies[x]]
        /\ last' = Call("Army", a, 0, 0, civilization,
                         IF r.raised THEN "ValueError" ELSE "None")
        /\ removed' = <<>>
        /\ UNCHANGED trained

\* armies[a].train_unit(unit_index)
train_unit(a, unit_index) ==
    \E r \in {train_unit_result(armies[a], unit_index)} :
        /\ armies' = [armies EXCEPT ![a] = r.army]
        /\ last' = Call("train_unit", a, unit_index, 0, <<>>, r.ret)
        /\ removed' = <<>>
        /\ trained' =
              IF r.ret = "True" /\ unit_index = FocusIndex
              THEN [trained EXCEPT
                       ![a][armies[a].units[unit_index + 1].unit_type] = @ + 1]
              ELSE trained

\* armies[a].transform_unit(unit_index, new_type)
transform_unit(a, unit_index, new_type) ==
    \E r \in {transform_unit_result(armies[a], unit_index, new_type)} :
        /\ armies' = [armies EXCEPT ![a] = r.army]
        /\ last' = Call("transform_unit", a, unit_index, 0, new_type, r.ret)
        /\ removed' = <<>>
        /\ UNCHANGED trained

\* armies[a].attack(armies[b])
attack(a, b) ==
    \E r \in {attack_result(armies, a, b)} :
        /\ armies' = r.armies
        /\ last' = Call("attack", a, 0, b, <<>>, r.ret)
        /\ removed' = r.removed
        /\ UNCHANGED trained

Trainings(a) == trained[a].pikeman + trained[a].archer + trained[a].knight

Battles(a) == Len(armies[a].battle_record)

\* roster indexes a caller passes: the focus and one on each side of the roster
Indexes(a) == {-1, FocusIndex, Len(armies[a].units)}

\* the variable whose army is trained and transformed
EconSlots == {1}

\* Callers that train and transform one army a little and send the armies
\* against each other.
Next ==
    \/ \E a \in Slots, civilization \in CivNames : ArmyInit(a, civilization)
    \/ \E a \in DOMAIN armies \cap EconSlots : \E i \in Indexes(a) :
          /\ Battles(a) <= MaxEconBattles
          /\ i = FocusIndex => Trainings(a) < MaxTrainBattle
          /\ train_unit(a, i)
    \/ \E a \in DOMAIN armies \cap EconSlots : \E t \in BattleTargets :
          /\ Battles(a) <= MaxEconBattles
          /\ transform_unit(a, FocusIndex, t)
    \/ \E a \in DOMAIN armies, b \in DOMAIN armies :
          /\ a # b
          /\ attack(a, b)

Spec == Init /\ [][Next]_vars

\* the last unit of the roster (a Knight in every preset)
LastIndex(a) == Len(armies[a].units) - 1

\* A caller that only trains and transforms: the focus unit a bounded number
\* of times, the last unit of the roster as long as it likes.
NextEcon ==
    \/ \E a \in EconSlots, civilization \in CivNames : ArmyInit(a, civilization)
    \/ \E a \in DOMAIN armies : \E i \in Indexes(a) \cup {LastIndex(a)} :
          /\ i = FocusIndex => Trainings(a) < MaxTrain
          /\ train_unit(a, i)
    \/ \E a \in DOMAIN armies :
       \E i \in Indexes(a) \cup {LastIndex(a)}, t \in TargetNames :
          transform_unit(a, i, t)

SpecEcon == Init /\ [][NextEcon]_vars

\* Callers that send the armies as constructed into battle, against each
\* other and, early on, against themselves.
NextWar ==
    \/ \E a \in Slots, civilization \in CivNames : ArmyInit(a, civilization)
    \/ \E a \in DOMAIN armies, b \in DOMAIN armies :
          /\ a = b => Battles(a) < MaxSelfBattles
          /\ attack(a, b)

SpecWar == Init /\ [][NextWar]_vars

\* Callers as in Next, with a caller that first sends its own, fresh army
\* against itself.
NextAll ==
    \/ Next
    \/ \E a \in DOMAIN armies \cap EconSlots :
          /\ armies[a].battle_record = <<>>
          /\ attack(a, a)

SpecAll == Init /\ [][NextAll]_vars

\* Callers that construct armies under all the names and let them fight once.
NextNames ==
    \/ \E a \in Slots, civilization \in CivNames \cup MoreCivNames :
          ArmyInit(a, civilization)
    \/ \E a \in DOMAIN armies, b \in DOMAIN armies :
          /\ a # b
          /\ armies[a].battle_record = <<>>
          /\ armies[b].battle_record = <<>>
          /\ attack(a, b)

SpecNames == Init /\ [][NextNames]_vars

\* A caller that constructs two pairs of armies, (1, 2) and (3, 4), and lets
\* the armies of a pair attack each other.
NextTwin ==
    \/ \E a \in TwinSlots, civilization \in TwinNames : ArmyInit(a, civilization)
    \/ \E a \in DOMAIN armies, b \in DOMAIN armies :
          /\ {a, b} \in {{1, 2}, {3, 4}}
          /\ Battles(a) < MaxTwinBattles
          /\ attack(a, b)

SpecTwin == Init /\ [][NextTwin]_vars

\* the army that is trained and transformed cannot pay for a Knight any more
Spent ==
    \A a \in EconSlots : a \in DOMAIN armies /\ armies[a].gold < ArcherToKnightCost

\* Callers that spend the gold of one army to the last coin, on its last unit
\* and on its focus unit, and let the armies fight a little once it is spent.
NextGold ==
    \/ \E a \in Slots, civilization \in CivNames : ArmyInit(a, civilization)
    \/ \E a \in DOMAIN armies \cap EconSlots : \E i \in {FocusIndex, LastIndex(a)} :
          /\ i = FocusIndex => Trainings(a) < MaxTrainBattle
          /\ train_unit(a, i)
    \/ \E a \in DOMAIN armies \cap EconSlots : \E t \in BattleTargets :
          transform_unit(a, FocusIndex, t)
    \/ \E a \in DOMAIN armies, b \in DOMAIN armies :
          /\ a # b
          /\ Spent
          /\ Battles(a) < MaxGoldBattles
          /\ attack(a, b)

SpecGold == Init /\ [][NextGold]_vars

\* some army attacks another one
Fight == \E a \in DOMAIN armies, b \in DOMAIN armies : a # b /\ attack(a, b)

\* Callers that train and transform a fresh army, may first send it against
\* itself, and let the armies attack each other.
NextEnd ==
    \/ \E a \in Slots, civilization \in CivNames : ArmyInit(a, civilization)
    \/ \E a \in DOMAIN armies \cap EconSlots :
          /\ armies[a].battle_record = <<>>
          /\ Trainings(a) < MaxTrainBattle
          /\ train_unit(a, FocusIndex)
    \/ \E a \in DOMAIN armies \cap EconSlots : \E t \in BattleTargets :
          /\ armies[a].battle_record = <<>>
          /\ transform_unit(a, FocusIndex, t)
    \/ \E a \in DOMAIN armies, b \in DOMAIN armies :
          /\ a = b => a \in EconSlots /\ armies[a].battle_record = <<>>
          /\ attack(a, b)

\* Those callers when they never stop attacking: again and again some army
\* attacks another one.
SpecEnd == Init /\ [][NextEnd]_vars /\ []<><<Fight>>_vars

\* armies[a].remove_strongest_units(count)
remove_strongest_units_call(a, count) ==
    \E r \in {remove_strongest_units(armies[a], count)} :
        /\ armies' = [armies EXCEPT ![a] = r.army]
        /\ last' = Call("remove_strongest_units", a, count, 0, <<>>, "None")
        /\ removed' = r.removed
        /\ UNCHANGED trained

\* A caller with one army that trains its focus unit, takes units out of the
\* roster and then sends the army against itself until no unit is left.
NextSelf ==
    \/ \E a \in EconSlots, civilization \in CivNames : ArmyInit(a, civilization)
    \/ \E a \in DOMAIN armies :
          /\ last.op \in {"Army", "train_unit"}
          /\ Trainings(a) < MaxTrainBattle
          /\ train_unit(a, FocusIndex)
    \/ \E a \in DOMAIN armies : \E count \in 0..MaxCount :
          /\ armies[a].battle_record = <<>>
          /\ remove_strongest_units_call(a, count)
    \/ \E a \in DOMAIN armies : attack(a, a)

SpecSelf == Init /\ [][NextSelf]_vars

\* Callers that let two armies attack each other and, for a while, send the
\* first one against itself in between.
NextPersist ==
    \/ \E a \in Slots, civilization \in CivNames : ArmyInit(a, civilization)
    \/ \E a \in DOMAIN armies, b \in DOMAIN armies :
          /\ a # b
          /\ attack(a, b)
    \/ \E a \in DOMAIN armies \cap EconSlots :
          /\ Battles(a) < MaxPersistBattles
          /\ attack(a, a)

SpecPersist == Init /\ [][NextPersist]_vars

\* the caller has begun to take units out of the roster
Removing == last.op = "remove_strongest_units"

\* A caller that trains and transforms the focus unit and then takes the
\* strongest units out of the roster itself.
NextRemove ==
    \/ \E a \in EconSlots, civilization \in CivNames : ArmyInit(a, civilization)
    \/ \E a \in DOMAIN armies :
          /\ ~Removing
          /\ Trainings(a) < MaxTrain
          /\ train_unit(a, FocusIndex)
    \/ \E a \in DOMAIN armies : \E t \in BattleTargets :
          /\ ~Removing
          /\ transform_unit(a, FocusIndex, t)
    \/ \E a \in DOMAIN armies : \E count \in 0..MaxCount :
          remove_strongest_units_call(a, count)

SpecRemove == Init /\ [][NextRemove]_vars

----------------------------------------------------------------------------
(* Vocabulary of the properties *)

\* a unit without its age
Core(unit) == [unit_type |-> unit.unit_type, strength |-> unit.strength]

Cores(units) == [k \in DOMAIN units |-> Core(units[k])]

Elements(seq) == {seq[k] : k \in DOMAIN seq}

\* how often x occurs in seq
Count(seq, x) == Cardinality({k \in DOMAIN seq : seq[k] = x})

\* post is pre with n elements taken out
Without(pre, post, n) ==
    /\ Len(post) = Len(pre) - n
    /\ \A x \in Elements(pre) \cup Elements(post) :
          Count(post, x) <= Count(pre, x)

\* the elements of pre that post lacks
Lost(pre, post) == {x \in Elements(pre) : Count(post, x) < Count(pre, x)}

\* the roster post is the roster pre without n of its strongest units
\* (units taken up to their age)
LostStrongest(pre, post, n) ==
    /\ Without(Cores(pre), Cores(post), n)
    /\ \A x \in Lost(Cores(pre), Cores(post)) :
          \A k \in DOMAIN post : post[k].strength <= x.strength

\* the step is a call of attack
IsAttack == last'.op = "attack"

\* the step is a call of attack between two different armies, both with units
IsFight ==
    /\ IsAttack
    /\ last'.self # last'.other
    /\ armies[last'.self].units # <<>>
    /\ armies[last'.other].units # <<>>

----------------------------------------------------------------------------
(* C1: the stronger army wins *)

\* army w beat army l in this step
Beat(w, l) ==
    /\ armies'[w].gold = armies[w].gold + 100
    /\ armies'[l].gold = armies[l].gold
    /\ Cores(armies'[w].units) = Cores(armies[w].units)
    /\ LostStrongest(armies[l].units, armies'[l].units,
                     IF Len(armies[l].units) < 2 THEN Len(armies[l].units) ELSE 2)

C1_Step ==
    IsFight =>
        LET a == last'.self
            b == last'.other
            strength_a == get_total_strength(armies[a])
            strength_b == get_total_strength(armies[b])
        IN  /\ strength_a > strength_b => last'.ret = "victory" /\ Beat(a, b)
            /\ strength_b > strength_a => last'.ret = "defeat" /\ Beat(b, a)

\* C1: for distinct armies A and B with non-empty rosters, when A is stronger
\* A.attack(B) returns victory, A gains exactly 100 gold, B loses its
\* min(2, size) strongest units, and A's roster and B's gold stay; when B is
\* stronger the same holds with the roles swapped and defeat returned.
C1_StrongerWins == [][C1_Step]_vars

\* a victory over an army that had a single unit left, and lost it
C1_Witness ==
    /\ last.op = "attack"
    /\ last.ret = "victory"
    /\ last.self # last.other
    /\ armies[last.other].units = <<>>
    /\ Len(removed) = 1

----------------------------------------------------------------------------
(* C2: equal strengths *)

\* post is pre without one unit, which had the greatest strength of pre
LostOneStrongest(pre, post) ==
    /\ Without(Cores(pre), Cores(post), 1)
    /\ \A x \in Lost(Cores(pre), Cores(post)) :
          \A k \in DOMAIN pre : pre[k].strength <= x.strength

C2_Step ==
    IsFight =>
        LET a == last'.self
            b == last'.other
        IN  get_total_strength(armies[a]) = get_total_strength(armies[b]) =>
                /\ last'.ret = "draw"
                /\ armies'[a].gold = armies[a].gold
                /\ armies'[b].gold = armies[b].gold
                /\ LostOneStrongest(armies[a].units, armies'[a].units)
                /\ LostOneStrongest(armies[b].units, armies'[b].units)

\* C2: for distinct armies A and B with non-empty rosters and equal total
\* strength, A.attack(B) returns draw, no gold changes, and each army loses
\* exactly one unit, a unit of maximum strength in its own roster.
C2_EqualDraws == [][C2_Step]_vars

\* a draw between two armies
C2_Witness ==
    /\ last.op = "attack"
    /\ last.ret = "draw"
    /\ last.self # last.other
    /\ Len(removed) = 2

----------------------------------------------------------------------------
(* C3: empty rosters *)

C3_Step ==
    IsAttack =>
        LET a == last'.self
            b == last'.other
        IN  /\ armies[a].units = <<>> =>
                last'.ret = "no_units" /\ armies' = armies
            /\ armies[a].units # <<>> /\ armies[b].units = <<>> =>
                last'.ret = "no_target" /\ armies' = armies

\* C3: A.attack(B) with A's roster empty returns no_units, and with A's
\* roster non-empty and B's empty returns no_target; either way the gold,
\* rosters, ages and histories of both armies are what they were.
C3_EmptyRosters == [][C3_Step]_vars

\* no_units returned when both rosters are empty
C3_Witness ==
    /\ last.op = "attack"
    /\ last.ret = "no_units"
    /\ last.self # last.other
    /\ armies[last.self].units = <<>>
    /\ armies[last.other].units = <<>>

----------------------------------------------------------------------------
(* C4: the battle records *)

Resolved == {"victory", "defeat", "draw"}

\* the record of army x about its battle against army y, from the states
\* before the call
RecordOf(x, y, result) ==
    [opponent |-> armies[y].civilization,
     our_strength |-> get_total_strength(armies[x]),
     enemy_strength |-> get_total_strength(armies[y]),
     result |-> result]

C4_Records(a, b) ==
    /\ armies'[a].battle_record =
          Append(armies[a].battle_record, RecordOf(a, b, last'.ret))
    /\ armies'[b].battle_record =
          Append(armies[b].battle_record,
                 RecordOf(b, a, CASE last'.ret = "victory" -> "defeat"
                                  [] last'.ret = "defeat" -> "victory"
                                  [] last'.ret = "draw" -> "draw"))

\* C4 as stated: every attack that resolves to victory, defeat or draw
\* appends exactly one record to A's history and exactly one to B's, A's with
\* B's civilization, the strengths before the battle and A's outcome, B's
\* mirrored.
C4_EveryAttack ==
    [][IsAttack /\ last'.ret \in Resolved =>
          C4_Records(last'.self, last'.other)]_vars

\* C4 for two different armies: each history gets exactly one record, A's
\* with B's civilization, the strengths before the battle and A's outcome,
\* B's with A's civilization, the strengths swapped and the outcome inverted.
C4_DistinctArmies ==
    [][IsAttack /\ last'.ret \in Resolved /\ last'.self # last'.other =>
          C4_Records(last'.self, last'.other)]_vars

\* a victory recorded after earlier battles of both armies
C4_Witness ==
    /\ last.op = "attack"
    /\ last.ret = "victory"
    /\ last.self # last.other
    /\ Len(armies[last.self].battle_record) >= 2
    /\ Len(armies[last.other].battle_record) >= 2

----------------------------------------------------------------------------
(* C5: ageing *)

\* the units, each one year younger
Unaged(units) ==
    [k \in DOMAIN units |-> [units[k] EXCEPT !.years_of_life = @ - 1]]

\* every unit of post is a unit of pre, one year older
AgedByOne(pre, post) ==
    \A x \in Elements(Unaged(post)) : Count(Unaged(post), x) <= Count(pre, x)

\* the units of the armies in S before the call are those left in them, one
\* year younger, and the removed ones at the age they had
SurvivorsAged(S) ==
    LET before == UNION {Elements(armies[x].units) : x \in S}
        after == UNION {Elements(Unaged(armies'[x].units)) : x \in S}
        Sum(f) == IF S = {last'.self}
                  THEN f[last'.self] ELSE f[last'.self] + f[last'.other]
    IN  /\ \A x \in S : AgedByOne(armies[x].units, armies'[x].units)
        /\ \A u \in before \cup after \cup Elements(removed') :
              Sum([x \in S |-> Count(armies[x].units, u)]) =
              Sum([x \in S |-> Count(Unaged(armies'[x].units), u)])
                  + Count(removed', u)

C5_Unresolved ==
    IsAttack /\ last'.ret \notin Resolved =>
        \A x \in {last'.self, last'.other} : armies'[x].units = armies[x].units

\* C5 as stated: after any attack that resolves, every unit left in either
\* roster is exactly one year older and the removed units are not aged; an
\* attack that does not resolve ages no unit.
C5_EveryAttack ==
    [][/\ IsAttack /\ last'.ret \in Resolved =>
              SurvivorsAged({last'.self, last'.other})
       /\ C5_Unresolved]_vars

\* C5 for two different armies: after an attack that resolves, every unit
\* left in either roster is exactly one year older and the removed units are
\* not aged; an attack that does not resolve ages no unit.
C5_DistinctArmies ==
    [][/\ IsAttack /\ last'.ret \in Resolved /\ last'.self # last'.other =>
              SurvivorsAged({last'.self, last'.other})
       /\ C5_Unresolved]_vars

\* a battle with units removed and survivors that were aged before
C5_Witness ==
    /\ last.op = "attack"
    /\ last.ret \in Resolved
    /\ last.self # last.other
    /\ removed # <<>>
    /\ armies[last.self].units # <<>>
    /\ armies[last.other].units # <<>>
    /\ armies[last.self].units[1].years_of_life >= 2
    /\ armies[last.other].units[1].years_of_life >= 2

----------------------------------------------------------------------------
(* C6: train_unit *)

IsTrain == last'.op = "train_unit"

InRoster(a, i) == 0 <= i /\ i < Len(armies[a].units)

C6_Step ==
    IsTrain =>
        LET a == last'.self
            i == last'.index
            unit == armies[a].units[i + 1]
        IN  IF InRoster(a, i) /\ armies[a].gold >= unit.training_cost
            THEN /\ last'.ret = "True"
                 /\ armies'[a] =
                       [armies[a] EXCEPT
                           !.gold = @ - unit.training_cost,
                           !.units[i + 1].strength = @ + unit.training_gain]
            ELSE /\ last'.ret = "False"
                 /\ armies'[a].gold = armies[a].gold
                 /\ Len(armies'[a].units) = Len(armies[a].units)
                 /\ \A k \in DOMAIN armies[a].units :
                       armies'[a].units[k].strength = armies[a].units[k].strength

\* C6: train_unit(i) with i in the roster and gold >= the unit's
\* training_cost returns true, adds exactly training_gain to that unit's
\* strength, takes exactly training_cost from the gold and changes nothing
\* else of the army; with i outside the roster or too little gold it returns
\* false and neither the gold nor any strength changes.
C6_TrainUnit == [][C6_Step]_vars

\* a training refused for lack of gold
C6_Witness ==
    /\ last.op = "train_unit"
    /\ last.ret = "False"
    /\ 0 <= last.index
    /\ last.index < Len(armies[last.self].units)
    /\ armies[last.self].gold <
          armies[last.self].units[last.index + 1].training_cost

----------------------------------------------------------------------------
(* C7: transform_unit succeeding *)

IsTransform == last'.op = "transform_unit"

\* the call made in this step is on the edge source -> target, with the gold
\* it costs
OnEdge(source, target, cost) ==
    LET a == last'.self
        i == last'.index
    IN  /\ InRoster(a, i)
        /\ armies[a].units[i + 1].unit_type = source
        /\ lower(last'.arg) = target
        /\ armies[a].gold >= cost

\* the unit at the index of the call became a unit of the type, for the cost
Transformed(type, cost, base_target, base_source) ==
    LET a == last'.self
        k == last'.index + 1
        old == armies[a].units[k]
        new == armies'[a].units[k]
    IN  /\ last'.ret = "True"
        /\ armies'[a].gold = armies[a].gold - cost
        /\ Len(armies'[a].units) = Len(armies[a].units)
        /\ \A j \in DOMAIN armies[a].units :
              j # k => armies'[a].units[j] = armies[a].units[j]
        /\ new.unit_type = type
        /\ new.strength = base_target + (old.strength - base_source)
        /\ new.years_of_life = old.years_of_life

C7_Step ==
    IsTransform =>
        /\ OnEdge("pikeman", str_archer, 30) => Transformed("archer", 30, 10, 5)
        /\ OnEdge("archer", str_knight, 40) => Transformed("knight", 40, 20, 10)

\* C7: transform_unit(i, target) on an allowed edge with the gold it costs
\* (Pikeman->Archer 30, Archer->Knight 40) returns true, takes exactly that
\* cost, and puts at position i, all other units and the roster size
\* unchanged, a unit of the target type with strength base(target) +
\* (old strength - base(source)) and the old unit's age.
C7_TransformUnit == [][C7_Step]_vars

\* a trained Pikeman that has been in a battle, made an Archer
C7_Witness ==
    /\ last.op = "transform_unit"
    /\ last.ret = "True"
    /\ armies[last.self].units[last.index + 1].unit_type = "archer"
    /\ armies[last.self].units[last.index + 1].strength = 13
    /\ armies[last.self].units[last.index + 1].years_of_life >= 1

----------------------------------------------------------------------------
(* C8: transform_unit failing *)

\* the call made in this step is one that the rules refuse
Refused ==
    LET a == last'.self
        i == last'.index
        source == armies[a].units[i + 1].unit_type
        target == lower(last'.arg)
    IN  \/ ~InRoster(a, i)
        \/ ~((source = "pikeman" /\ target = str_archer)
              \/ (source = "archer" /\ target = str_knight))
        \/ source = "pikeman" /\ armies[a].gold < 30
        \/ source = "archer" /\ armies[a].gold < 40

C8_Step ==
    IsTransform =>
        /\ Refused => last'.ret = "False"
        /\ last'.ret = "False" => armies' = armies

\* C8: transform_unit returns false for an index outside the roster, a pair
\* other than Pikeman->Archer or Archer->Knight, or gold below the cost of
\* the edge, and whenever it returns false the gold, the roster and the
\* history are unchanged.
C8_AllOrNothing == [][C8_Step]_vars

\* a Pikeman -> Archer transformation refused for lack of gold
C8_Witness ==
    /\ last.op = "transform_unit"
    /\ last.ret = "False"
    /\ 0 <= last.index
    /\ last.index < Len(armies[last.self].units)
    /\ armies[last.self].units[last.index + 1].unit_type = "pikeman"
    /\ lower(last.arg) = str_archer
    /\ armies[last.self].gold < 30

----------------------------------------------------------------------------
(* C9: the training bonus along Pikeman -> Archer -> Knight *)

\* the unit the caller trains and transforms, which starts as a Pikeman
FocusUnit(a) == armies[a].units[FocusIndex + 1]

\* C9: with k trainings as a Pikeman the unit has strength 5 + 3k, made an
\* Archer 10 + 3k, made a Knight 20 + 3k; each training as an Archer adds 7
\* to the strength it has as an Archer and as a Knight (and each training as
\* a Knight 10).
C9_BonusPreserved ==
    \A a \in DOMAIN armies :
        LET unit == FocusUnit(a)
            bonus == 3 * trained[a].pikeman + 7 * trained[a].archer
                         + 10 * trained[a].knight
        IN  /\ unit.unit_type = "pikeman" => unit.strength = 5 + bonus
            /\ unit.unit_type = "archer" => unit.strength = 10 + bonus
            /\ unit.unit_type = "knight" => unit.strength = 20 + bonus

\* the Pikeman trained to 11 (then 16 as an Archer) is a Knight of strength 26
C9_Witness ==
    \E a \in DOMAIN armies :
        /\ last.op = "transform_unit"
        /\ last.ret = "True"
        /\ FocusUnit(a).unit_type = "knight"
        /\ FocusUnit(a).strength = 26
        /\ trained[a] = [pikeman |-> 2, archer |-> 0, knight |-> 0]

----------------------------------------------------------------------------
(* C10: construction *)

\* units is p Pikemen, then a Archers, then k Knights, each as built
IsPreset(units, p, a, k) ==
    /\ Len(units) = p + a + k
    /\ \A j \in DOMAIN units :
          /\ units[j].years_of_life = 0
          /\ units[j].unit_type =
                IF j <= p THEN "pikeman" ELSE IF j <= p + a THEN "archer"
                ELSE "knight"
          /\ units[j].strength =
                IF j <= p THEN 5 ELSE IF j <= p + a THEN 10 ELSE 20

\* C10: an Army just constructed has gold 1000, an empty history and the
\* roster of its civilization, Pikemen then Archers then Knights, at base
\* strength and age 0: Chinese 2/25/2 (29 units, strength 300), English
\* 10/10/10 (30, 350), Byzantine 5/8/15 (28, 405).
C10_Construction ==
    last.op = "Army" /\ last.ret = "None" =>
        LET self == armies[last.self]
            name == lower(last.arg)
        IN  /\ self.gold = 1000
            /\ self.battle_record = <<>>
            /\ name \in {str_chinese, str_english, str_byzantine}
            /\ name = str_chinese =>
                  /\ IsPreset(self.units, 2, 25, 2)
                  /\ Len(self.units) = 29
                  /\ get_total_strength(self) = 300
            /\ name = str_english =>
                  /\ IsPreset(self.units, 10, 10, 10)
                  /\ Len(self.units) = 30
                  /\ get_total_strength(self) = 350
            /\ name = str_byzantine =>
                  /\ IsPreset(self.units, 5, 8, 15)
                  /\ Len(self.units) = 28
                  /\ get_total_strength(self) = 405

\* a Chinese and a Byzantine army, the second just constructed
C10_Witness ==
    /\ last.op = "Army"
    /\ last.ret = "None"
    /\ DOMAIN armies = Slots
    /\ \E a \in Slots : lower(armies[a].civilization) = str_chinese
    /\ lower(armies[last.self].civilization) = str_byzantine

----------------------------------------------------------------------------
(* C11: remove_strongest_units *)

\* position k holds the first unit of maximum strength of the roster
FirstStrongest(units, k) ==
    /\ \A j \in DOMAIN units : units[j].strength <= units[k].strength
    /\ \A j \in 1..(k - 1) : units[j].strength < units[k].strength

\* the sequence without its element at position k
Drop(seq, k) ==
    [j \in 1..(Len(seq) - 1) |-> IF j < k THEN seq[j] ELSE seq[j + 1]]

\* post and gone are what n rounds of 'scan for the maximum strength and
\* take out the first unit that has it' leave of pre and take out of it
RECURSIVE ScanAndRemove(_, _, _, _)
ScanAndRemove(pre, post, gone, n) ==
    IF n = 0 THEN post = pre /\ gone = <<>>
    ELSE /\ gone # <<>>
         /\ \E k \in DOMAIN pre :
               /\ FirstStrongest(pre, k)
               /\ Head(gone) = pre[k]
               /\ ScanAndRemove(Drop(pre, k), post, Tail(gone), n - 1)

\* post is pre with some elements left out, the others in their order:
\* post[j..] is matched into pre[i..]
RECURSIVE SubsequenceFrom(_, _, _, _)
SubsequenceFrom(pre, post, i, j) ==
    IF j > Len(post) THEN TRUE
    ELSE IF i > Len(pre) THEN FALSE
    ELSE IF pre[i] = post[j] THEN SubsequenceFrom(pre, post, i + 1, j + 1)
    ELSE SubsequenceFrom(pre, post, i + 1, j)

C11_Step ==
    last'.op = "remove_strongest_units" =>
        LET a == last'.self
            pre == armies[a].units
            post == armies'[a].units
            n == IF last'.index <= Len(pre) THEN last'.index ELSE Len(pre)
        IN  /\ Len(post) = Len(pre) - n
            /\ Len(removed') = n
            /\ ScanAndRemove(pre, post, removed', n)
            /\ SubsequenceFrom(pre, post, 1, 1)
            /\ \A j \in DOMAIN post : \A k \in DOMAIN removed' :
                  post[j].strength <= removed'[k].strength
            /\ armies'[a].gold = armies[a].gold
            /\ armies'[a].battle_record = armies[a].battle_record

\* C11: remove_strongest_units(n) removes exactly min(n, roster size) units,
\* each found by scanning the roster for the maximum strength and taking out
\* the first unit in roster order that has it; the units left keep their
\* order and none of them is stronger than a removed unit.
C11_RemoveStrongest == [][C11_Step]_vars

\* a trained and transformed unit at the head of the roster, as strong as
\* the Knights at its end, was the first of two units removed
C11_Witness ==
    /\ last.op = "remove_strongest_units"
    /\ last.index >= 2
    /\ Len(removed) >= 2
    /\ removed[1].unit_type = "archer"
    /\ removed[1].strength = 20
    /\ removed[2].unit_type = "knight"
    /\ removed[2].strength = 20

----------------------------------------------------------------------------
(* C12: the history is append-only *)

IsPrefix(p, q) == Len(p) <= Len(q) /\ SubSeq(q, 1, Len(p)) = p

\* the step is a resolved battle that army x took part in
TookPart(x) ==
    /\ IsAttack
    /\ last'.ret \in Resolved
    /\ x \in {last'.self, last'.other}

\* the roles (attacker, target) army x had in the step's resolved battle
Roles(x) ==
    IF IsAttack /\ last'.ret \in Resolved
    THEN (IF x = last'.self THEN 1 ELSE 0) + (IF x = last'.other THEN 1 ELSE 0)
    ELSE 0

\* what holds of the histories whatever a battle counts for
C12_Kept ==
    /\ \A x \in DOMAIN armies :
          IsPrefix(armies[x].battle_record, armies'[x].battle_record)
    /\ \A x \in DOMAIN armies' \ DOMAIN armies :
          armies'[x].battle_record = <<>>
    /\ IsTrain \/ IsTransform =>
          \A x \in DOMAIN armies :
              armies'[x].battle_record = armies[x].battle_record

\* C12 as stated: every operation leaves each history a prefix of what it
\* becomes, train_unit and transform_unit leave it unchanged, and its length
\* is the number of resolved battles the army has taken part in: empty at
\* construction, one longer with every resolved battle of the army, and as
\* long as before otherwise.
C12_OnePerBattle ==
    [][/\ C12_Kept
       /\ \A x \in DOMAIN armies :
             Len(armies'[x].battle_record) =
                Len(armies[x].battle_record) + (IF TookPart(x) THEN 1 ELSE 0)]_vars

\* C12 with a battle of an army against itself counted for both its roles:
\* every operation leaves each history a prefix of what it becomes,
\* train_unit and transform_unit leave it unchanged, and its length is the
\* number of resolved battles against another army plus twice the number of
\* resolved battles against itself.
C12_OnePerRole ==
    [][/\ C12_Kept
       /\ \A x \in DOMAIN armies :
             Len(armies'[x].battle_record) =
                Len(armies[x].battle_record) + Roles(x)]_vars

\* a trained army that fought itself and was then attacked by the other one
C12_Witness ==
    /\ last.op = "attack"
    /\ last.ret \in Resolved
    /\ last.self = 2
    /\ last.other = 1
    /\ Len(armies[1].battle_record) = 3
    /\ armies[1].battle_record[1].opponent = armies[1].civilization
    /\ trained[1] # NoTraining

----------------------------------------------------------------------------
(* C13: strengths are never negative *)

\* the strength a unit of the type is created with
BaseStrength(unit_type) ==
    CASE unit_type = "pikeman" -> 5
      [] unit_type = "archer" -> 10
      [] unit_type = "knight" -> 20

\* C13: in every reachable state every unit, in a roster or just removed from
\* one, has strength >= 0, and its strength minus the base strength of its
\* type (the bonus transform_unit carries over) is >= 0 as well.
C13_StrengthNonNegative ==
    /\ \A a \in DOMAIN armies : \A k \in DOMAIN armies[a].units :
          /\ armies[a].units[k].strength >= 0
          /\ armies[a].units[k].strength
                 - BaseStrength(armies[a].units[k].unit_type) >= 0
    /\ \A k \in DOMAIN removed :
          /\ removed[k].strength >= 0
          /\ removed[k].strength - BaseStrength(removed[k].unit_type) >= 0

\* a Pikeman trained once, made an Archer, then a Knight, after a battle
C13_Witness ==
    /\ 1 \in DOMAIN armies
    /\ armies[1].battle_record # <<>>
    /\ armies[1].units # <<>>
    /\ last.op = "transform_unit"
    /\ last.ret = "True"
    /\ FocusUnit(1).unit_type = "knight"
    /\ FocusUnit(1).strength = 23

----------------------------------------------------------------------------
(* C14: the names Army(...) accepts *)

\* c and d are the same character or the two cases of one letter
SameLetter(c, d) ==
    \/ c = d
    \/ \E k \in DOMAIN UpperCase : {c, d} = {UpperCase[k], LowerCase[k]}

\* the name is the preset's name up to the case of its letters
Matches(name, preset) ==
    /\ Len(name) = Len(preset)
    /\ \A k \in DOMAIN preset : SameLetter(name[k], preset[k])

\* C14: Army(name) with a name that is chinese, english or byzantine up to
\* the case of its letters gives an army, of that civilization; with any
\* other name it fails with the unknown-civilization error (ValueError) and
\* gives no army.
C14_Names ==
    last.op = "Army" =>
        IF \E preset \in {str_chinese, str_english, str_byzantine} :
               Matches(last.arg, preset)
        THEN /\ last.ret = "None"
             /\ last.self \in DOMAIN armies
             /\ armies[last.self].civilization = last.arg
             /\ Matches(last.arg, str_chinese) =>
                    IsPreset(armies[last.self].units, 2, 25, 2)
             /\ Matches(last.arg, str_english) =>
                    IsPreset(armies[last.self].units, 10, 10, 10)
             /\ Matches(last.arg, str_byzantine) =>
                    IsPreset(armies[last.self].units, 5, 8, 15)
        ELSE /\ last.ret = "ValueError"
             /\ last.self \notin DOMAIN armies

\* an army made under a mixed-case name, then a name with a blank refused
C14_Witness ==
    /\ last.op = "Army"
    /\ last.ret = "ValueError"
    /\ last.arg = <<"c","h","i","n","e","s","e"," ">>
    /\ last.self \notin DOMAIN armies
    /\ \E a \in DOMAIN armies :
          armies[a].civilization = <<"E","N","G","L","I","S","h">>

----------------------------------------------------------------------------
(* C15: attack is deterministic *)

\* the same gold, roster and history
SameListedState(x, y) ==
    /\ x.gold = y.gold
    /\ x.units = y.units
    /\ x.battle_record = y.battle_record

\* the same civilization name as well
SameState(x, y) == SameListedState(x, y) /\ x.civilization = y.civilization

\* the attack made in this step, had it been made by the pair (c, d), would
\* have returned the same and left c and d as it left the two armies
SameOutcome(c, d) ==
    LET twin == attack_result(armies, c, d)
    IN  /\ twin.ret = last'.ret
        /\ SameListedState(twin.armies[c], armies'[last'.self])
        /\ SameListedState(twin.armies[d], armies'[last'.other])

TwinRuns ==
    /\ DOMAIN armies = TwinSlots
    /\ armies[1].civilization = armies[3].civilization
    /\ armies[2].civilization = armies[4].civilization
    /\ Len(armies[1].battle_record) = Len(armies[3].battle_record)

----------------------------------------------------------------------------
(* C16: gold is never negative *)

\* the gold of army a went down in this step, by a train_unit or
\* transform_unit of a that succeeded and cost no more than a had
C16_Paid(a) ==
    armies'[a].gold < armies[a].gold =>
        /\ IsTrain \/ IsTransform
        /\ last'.self = a
        /\ last'.ret = "True"
        /\ armies[a].gold - armies'[a].gold <= armies[a].gold
        /\ IsTrain =>
              armies[a].gold - armies'[a].gold =
                 armies[a].units[last'.index + 1].training_cost
        /\ IsTransform => armies[a].gold - armies'[a].gold \in {30, 40}

\* C16: every army's gold is >= 0 in every reachable state, an army starts
\* with 1000, and gold goes down only by a successful train_unit or
\* transform_unit whose cost is at most the gold the army has; attack, for
\* the attacker and for the target, never takes gold.
C16_GoldNonNegative ==
    /\ [](\A a \in DOMAIN armies : armies[a].gold >= 0)
    /\ [][/\ \A a \in DOMAIN armies : C16_Paid(a)
          /\ \A a \in DOMAIN armies' \ DOMAIN armies : armies'[a].gold = 1000]_vars

\* an army that has fought spent its last coin on a training
C16_Witness ==
    \E a \in DOMAIN armies :
        /\ armies[a].battle_record # <<>>
        /\ last.op = "train_unit"
        /\ last.self = a
        /\ last.ret = "True"
        /\ armies[a].gold = 0

----------------------------------------------------------------------------
(* C17: rosters only shrink, battles come to an end *)

\* the roster size of the preset the army was constructed with
InitialSize(a) ==
    LET name == lower(armies[a].civilization)
    IN  IF name = str_chinese THEN 29 ELSE IF name = str_english THEN 30 ELSE 28

RECURSIVE SumOver(_, _)
SumOver(f, S) ==
    IF S = {} THEN 0
    ELSE LET x == CHOOSE y \in S : TRUE IN f[x] + SumOver(f, S \ {x})

\* units all armies have lost since their construction
UnitsLost ==
    SumOver([a \in DOMAIN armies |-> InitialSize(a) - Len(armies[a].units)],
            DOMAIN armies)

\* records in all histories: two for every resolved battle
RecordsWritten ==
    SumOver([a \in DOMAIN armies |-> Len(armies[a].battle_record)],
            DOMAIN armies)

\* both armies exist and one of them has no units left
Exhausted ==
    /\ DOMAIN armies = Slots
    /\ \E a \in Slots : armies[a].units = <<>>

C17_Step ==
    /\ \A a \in DOMAIN armies : Len(armies'[a].units) <= Len(armies[a].units)
    /\ IsAttack /\ last'.ret \in Resolved =>
          SumOver([a \in DOMAIN armies |-> Len(armies'[a].units)],
                  {last'.self, last'.other})
          < SumOver([a \in DOMAIN armies |-> Len(armies[a].units)],
                    {last'.self, last'.other})
    /\ Exhausted => Exhausted'
    /\ Exhausted /\ IsAttack /\ last'.self # last'.other =>
          last'.ret \in {"no_units", "no_target"}

\* C17: no operation makes the roster of an army longer, and every attack
\* that resolves makes the two rosters together shorter; so the resolved
\* battles are at most as many as the units the armies were constructed
\* with, and two armies that go on attacking each other reach a state from
\* which every attack returns no_units or no_target.
C17_BattlesEnd ==
    /\ [][C17_Step]_vars
    /\ [](RecordsWritten <= 2 * UnitsLost)
    /\ [](RecordsWritten <=
            2 * SumOver([a \in DOMAIN armies |-> InitialSize(a)], DOMAIN armies))
    /\ (DOMAIN armies = Slots) ~> Exhausted

\* after battles and a transformation, an attack on an army without units
C17_Witness ==
    /\ Exhausted
    /\ last.op = "attack"
    /\ last.ret = "no_target"
    /\ armies[last.self].units # <<>>
    /\ armies[last.self].units[1].unit_type # "pikeman"

----------------------------------------------------------------------------
(* C18: an army attacking itself *)

\* the units, each two years younger
UnagedTwice(units) ==
    [k \in DOMAIN units |-> [units[k] EXCEPT !.years_of_life = @ - 2]]

C18_Step ==
    /\ IsAttack
    /\ last'.self = last'.other
    /\ armies[last'.self].units # <<>>
    => LET a == last'.self
           pre == armies[a]
           post == armies'[a]
           n == IF Len(pre.units) < 2 THEN Len(pre.units) ELSE 2
           draw == [opponent |-> pre.civilization,
                    our_strength |-> get_total_strength(pre),
                    enemy_strength |-> get_total_strength(pre),
                    result |-> "draw"]
       IN  /\ last'.ret = "draw"
           /\ post.gold = pre.gold
           /\ Len(post.units) = Len(pre.units) - n
           /\ Len(removed') = n
           /\ SubsequenceFrom(pre.units, UnagedTwice(post.units), 1, 1)
           /\ post.battle_record = pre.battle_record \o <<draw, draw>>
           /\ draw.our_strength = draw.enemy_strength

\* C18: an army with units that attacks itself gets draw returned, keeps its
\* gold, loses min(2, roster size) units in all, has every unit it keeps two
\* years older, and gets two draw records, each with its own strength as own
\* and as enemy strength, appended to its history.
C18_SelfAttack == [][C18_Step]_vars

\* an army of a single unit attacked itself and lost it
C18_Witness ==
    /\ last.op = "attack"
    /\ last.self = last.other
    /\ last.ret = "draw"
    /\ armies[last.self].units = <<>>
    /\ Len(removed) = 1
    /\ Len(armies[last.self].battle_record) >= 4

----------------------------------------------------------------------------
(* C19: victory persists *)

\* record k of army w is a victory over an army named as army l is, and no
\* later record of w is about an army named otherwise than l and w
WonAt(w, l, k) ==
    /\ k \in DOMAIN armies[w].battle_record
    /\ armies[w].battle_record[k].result = "victory"
    /\ armies[w].battle_record[k].opponent = armies[l].civilization
    /\ \A j \in (k + 1)..Len(armies[w].battle_record) :
          armies[w].battle_record[j].opponent
             \in {armies[l].civilization, armies[w].civilization}

\* no record of army w after record k is about a battle against itself
NoSelfAttackSince(w, k) ==
    \A j \in (k + 1)..Len(armies[w].battle_record) :
        armies[w].battle_record[j].opponent # armies[w].civilization

\* the attack of this step is between w and l and goes to w, or finds l
\* without units
StillWins(w, l) ==
    /\ last'.self = w /\ last'.other = l =>
          last'.ret = IF armies[l].units = <<>> THEN "no_target" ELSE "victory"
    /\ last'.self = l /\ last'.other = w =>
          last'.ret = IF armies[l].units = <<>> THEN "no_units" ELSE "defeat"

\* the step is an attack between two armies of different names
NamedFight ==
    /\ IsAttack
    /\ last'.self # last'.other
    /\ armies[last'.self].civilization # armies[last'.other].civilization

\* C19 as stated: once an army has beaten another one, and no train_unit or
\* transform_unit is applied to either and neither fights a third army,
\* every later attack between them goes to it again (victory for it, defeat
\* for the other) until the other has no units, from when the attacks return
\* no_target and no_units.
C19_VictoryPersists ==
    [][NamedFight =>
          \A w \in {last'.self, last'.other} :
          \A l \in {last'.self, last'.other} \ {w} :
              (\E k \in DOMAIN armies[w].battle_record : WonAt(w, l, k))
              => StillWins(w, l)]_vars

\* C19 for a winner that does not attack itself either: once an army has
\* beaten another one, and no train_unit or transform_unit is applied to
\* either, neither fights a third army and the winner has not attacked
\* itself since, every later attack between them goes to it again until the
\* other has no units, from when the attacks return no_target and no_units.
C19_UnlessSelfAttack ==
    [][NamedFight =>
          \A w \in {last'.self, last'.other} :
          \A l \in {last'.self, last'.other} \ {w} :
              (\E k \in DOMAIN armies[w].battle_record :
                   WonAt(w, l, k) /\ NoSelfAttackSince(w, k))
              => StillWins(w, l)]_vars

\* the loser of earlier battles, out of units, attacks the winner in vain
C19_Witness ==
    /\ last.op = "attack"
    /\ last.ret = "no_units"
    /\ last.self # last.other
    /\ armies[last.other].units # <<>>
    /\ armies[last.self].civilization # armies[last.other].civilization
    /\ \E k \in DOMAIN armies[last.other].battle_record :
          WonAt(last.other, last.self, k) /\ NoSelfAttackSince(last.other, k)

----------------------------------------------------------------------------
(* C20: training a transformed unit *)

\* the unit a successful transform_unit has just put in the roster carries
\* the training cost and gain of its type
TransformedEconomics ==
    last.op = "transform_unit" /\ last.ret = "True" =>
        LET unit == armies[last.self].units[last.index + 1]
        IN  /\ unit.unit_type = "archer" =>
                  unit.training_cost = 20 /\ unit.training_gain = 7
            /\ unit.unit_type = "knight" =>
                  unit.training_cost = 30 /\ unit.training_gain = 10

\* a successful train_unit on a unit that is an Archer takes 20 gold and
\* adds 7 strength, on one that is a Knight 30 gold and 10 strength
C20_Step ==
    IsTrain /\ last'.ret = "True" =>
        LET a == last'.self
            k == last'.index + 1
            unit == armies[a].units[k]
        IN  /\ unit.unit_type = "archer" =>
                  /\ armies'[a].gold = armies[a].gold - 20
                  /\ armies'[a].units[k].strength = unit.strength + 7
            /\ unit.unit_type = "knight" =>
                  /\ armies'[a].gold = armies[a].gold - 30
                  /\ armies'[a].units[k].strength = unit.strength + 10

\* C20: after a successful transform_unit the unit at that index has the
\* training cost and gain of its new type, and a later successful
\* train_unit on it costs 20 gold and adds 7 strength if it is now an
\* Archer, 30 gold and 10 strength if it is now a Knight.
C20_TransformedTraining == []TransformedEconomics /\ [][C20_Step]_vars

\* the unit that began as a Pikeman has just been trained as a Knight
C20_Witness ==
    /\ last.op = "train_unit"
    /\ last.ret = "True"
    /\ last.index = FocusIndex
    /\ FocusUnit(last.self).unit_type = "knight"
    /\ trained[last.self].knight > 0

====
